---- MODULE Spec2Model ----
(***************************************************************************)
(* Model of fss_update_cmk.py: a one-shot script that sets the KMS key id  *)
(* of the file systems of a DR protection group from their freeform tags.  *)
(*                                                                         *)
(* Strings that the script takes apart (the protection group OCID, the tag *)
(* keys) are sequences of one-character strings.  Other strings are TLA+   *)
(* strings.  Python's None is the string None below: no key id and no tag  *)
(* value of the model equals it.                                           *)
(***************************************************************************)
EXTENDS Integers, Sequences, FiniteSets, TLC

\* Bounds of the model.
MaxIdLen == 4
MaxMembers == 3

None == "None"

\* keyname before it is assigned.
Unbound == <<>>

\* ---------------------------------------------------------------- inputs

Alphabet == {"i", "p", "."}

\* Every --dr_protection_group_ocid of at most MaxIdLen characters.
Ocids == UNION {[1..n -> Alphabet] : n \in 0..MaxIdLen}

KeyPrefix == <<"k", "e", "y", "_">>

FileSystemIds == {"fs1", "fs2"}

MemberPool ==
    {[member_type |-> "FILE_SYSTEM", member_id |-> f] : f \in FileSystemIds}
    \cup {[member_type |-> "COMPUTE_INSTANCE", member_id |-> "inst1"]}

\* The member lists a protection group can hold: no member is enrolled twice.
MemberLists ==
    UNION {{m \in [1..n -> MemberPool] :
              \A a, b \in 1..n : a # b => m[a].member_id # m[b].member_id}
           : n \in 0..MaxMembers}

\* The data of a get_dr_protection_group response: an object that has a
\* members attribute or has none.
DrpgResponses ==
    {[has_members |-> FALSE, members |-> <<>>]}
    \cup {[has_members |-> TRUE, members |-> m] : m \in MemberLists}

TagKeys == {KeyPrefix \o <<"i">>, KeyPrefix \o <<"p">>}
TagValues == {"", "cmk"}

\* Freeform tags: a mapping from some tag keys to strings.
TagMaps == UNION {[K -> TagValues] : K \in SUBSET TagKeys}

KmsKeyIds == {None, "", "cmk_old"}

\* The fields of a get_file_system response that the script reads.
FileSystemRecords ==
    {[kms_key_id |-> k, freeform_tags |-> t] : k \in KmsKeyIds, t \in TagMaps}

NoRecord == [kms_key_id |-> None, freeform_tags |-> <<>>]

\* ------------------------------------------------------------- variables

VARIABLES
    drpg_ocid,                   \* args.dr_protection_group_ocid
    pc,                          \* the statement the script is at
    error,                       \* the uncaught exception, "none" if none
    restored_file_systems_list,  \* result of get_drpg_fss_member_details
    keyname,                     \* "key_" + region_identifier
    idx,                         \* position of the for loop in the list
    current_cmk_id,              \* locals of the loop body
    new_cmk_id,
    calls,                       \* the remote calls issued, in order
    log,                         \* the records written by logger.info/print
    drpg,                        \* the protection group at the DR service
    file_systems,                \* the file systems at the storage service
    run,                         \* 1 in the first run of the script, 2 in the second
    first_list                   \* the member list the first run worked on

vars == <<drpg_ocid, pc, error, restored_file_systems_list, keyname, idx,
          current_cmk_id, new_cmk_id, calls, log, drpg, file_systems, run,
          first_list>>

\* ------------------------------------------------------- pure functions

\* str.split("."), left to right: cur is the segment being read, acc the
\* segments already closed.
RECURSIVE SplitAcc(_, _, _)
SplitAcc(s, cur, acc) ==
    IF s = <<>> THEN Append(acc, cur)
    ELSE IF Head(s) = "." THEN SplitAcc(Tail(s), <<>>, Append(acc, cur))
    ELSE SplitAcc(Tail(s), Append(cur, Head(s)), acc)

Split(s) == SplitAcc(s, <<>>, <<>>)

KeynameWrongSegment(ocid) == KeyPrefix \o Split(ocid)[3]

\* keyname = "key_" + parts[3]  (0-based index 3 is the 4th segment)
Keyname(ocid) == KeyPrefix \o Split(ocid)[4]

\* parts[3] raises IndexError when the split has fewer than 4 parts.
IndexInRange(ocid) == Len(Split(ocid)) >= 4

FilterPrepends(members) ==
    LET RECURSIVE Loop(_, _)
        Loop(rest, out) ==
            IF rest = <<>> THEN out
            ELSE IF Head(rest).member_type = "FILE_SYSTEM"
                 THEN Loop(Tail(rest), <<Head(rest).member_id>> \o out)
                 ELSE Loop(Tail(rest), out)
    IN Loop(members, <<>>)

\* The for loop of get_drpg_fss_member_details over response.data.members.
FilterFileSystems(members) ==
    LET RECURSIVE Loop(_, _)
        Loop(rest, out) ==
            IF rest = <<>> THEN out
            ELSE IF Head(rest).member_type = "FILE_SYSTEM"
                 THEN Loop(Tail(rest), Append(out, Head(rest).member_id))
                 ELSE Loop(Tail(rest), out)
    IN Loop(members, <<>>)

\* The body of the try block once the remote call has returned.
MembersOf(response) ==
    IF response.has_members THEN FilterFileSystems(response.members) ELSE <<>>

\* dict.get(key, None)
DictGet(tags, key) == IF key \in DOMAIN tags THEN tags[key] ELSE None

DecideIgnoringCurrent(current, new) ==
    IF new # None THEN "APPLY" ELSE "SKIP_NO_KEY"

\* The two nested ifs of the loop body.
Decide(current, new) ==
    IF current = None \/ current = ""
    THEN IF new # None THEN "APPLY" ELSE "SKIP_NO_KEY"
    ELSE "SKIP_ALREADY_SET"

HasFileSystemsAlways(list) == Len(list) >= 0

\* if len(restored_file_systems_list) > 0
HasFileSystems(list) == Len(list) > 0

ExceptNeverReturns(outcome) == FALSE

\* The except clause of get_drpg_fss_member_details formats e.reason: it
\* returns when the exception has that attribute, and raises AttributeError
\* when it has not.
ExceptReturns(outcome) == outcome = "error_with_reason"

\* ---------------------------------------------------------------- state

Call(op, id, rec, kms, outcome) ==
    [op |-> op, id |-> id, rec |-> rec, kms |-> kms, outcome |-> outcome,
     pos |-> idx, run |-> run]

Rec(msg, id) == [msg |-> msg, id |-> id]

UnseenDrpg == [seen |-> FALSE, has_members |-> FALSE, members |-> <<>>]
UnseenFileSystem == [seen |-> FALSE, kms_key_id |-> None, freeform_tags |-> <<>>]

\* The script has parsed its arguments, set up logging, logged the start
\* date and built its clients.  What the remote services hold is fixed at
\* the first read of it.
Init ==
    /\ drpg_ocid \in Ocids
    /\ pc = "get_region_dict"
    /\ error = "none"
    /\ restored_file_systems_list = <<>>
    /\ keyname = Unbound
    /\ idx = 0
    /\ current_cmk_id = None
    /\ new_cmk_id = None
    /\ calls = <<>>
    /\ log = <<Rec("Execution Start Date", None)>>
    /\ drpg = UnseenDrpg
    /\ file_systems = [f \in FileSystemIds |-> UnseenFileSystem]
    /\ run = 1
    /\ first_list = <<>>

Abort(e) ==
    /\ pc' = "aborted"
    /\ error' = e

\* regions_dict = get_region_dict(identity_client)
GetRegionDict ==
    /\ pc = "get_region_dict"
    /\ \E outcome \in {"ok", "error"} :
          /\ calls' = Append(calls, Call("list_regions", None, NoRecord, None, outcome))
          /\ IF outcome = "ok"
             THEN pc' = "get_drpg_fss_member_details" /\ UNCHANGED error
             ELSE Abort("ServiceError")
    /\ UNCHANGED <<drpg_ocid, restored_file_systems_list, keyname, idx,
                   current_cmk_id, new_cmk_id, log, drpg, file_systems, run,
                   first_list>>

\* restored_file_systems_list = get_drpg_fss_member_details(dr_client, drpg_ocid)
GetDrpgFssMemberDetails ==
    /\ pc = "get_drpg_fss_member_details"
    /\ \E outcome \in {"ok", "error_with_reason", "error_without_reason"} :
          /\ calls' = Append(calls,
                 Call("get_dr_protection_group", None, NoRecord, None, outcome))
          /\ IF outcome = "ok"
             THEN /\ \E response \in DrpgResponses :
                        /\ drpg.seen =>
                             /\ response.has_members = drpg.has_members
                             /\ response.members = drpg.members
                        /\ drpg' = [seen |-> TRUE,
                                    has_members |-> response.has_members,
                                    members |-> response.members]
                        /\ restored_file_systems_list' = MembersOf(response)
                  /\ pc' = "derive_keyname"
                  /\ UNCHANGED <<error, log>>
             ELSE IF ExceptReturns(outcome)
             THEN /\ restored_file_systems_list' = <<>>
                  /\ log' = Append(log, Rec("Error in fetching DRPG Details", None))
                  /\ pc' = "derive_keyname"
                  /\ UNCHANGED <<error, drpg>>
             ELSE /\ Abort("AttributeError")
                  /\ UNCHANGED <<restored_file_systems_list, log, drpg>>
    /\ UNCHANGED <<drpg_ocid, keyname, idx, current_cmk_id, new_cmk_id,
                   file_systems, run, first_list>>

\* parts = drpg_ocid.split("."); region_identifier = parts[3];
\* keyname = "key_" + region_identifier
DeriveKeyname ==
    /\ pc = "derive_keyname"
    /\ IF IndexInRange(drpg_ocid)
       THEN /\ keyname' = Keyname(drpg_ocid)
            /\ pc' = "log_member_count"
            /\ UNCHANGED error
       ELSE /\ Abort("IndexError")
            /\ UNCHANGED keyname
    /\ UNCHANGED <<drpg_ocid, restored_file_systems_list, idx, current_cmk_id,
                   new_cmk_id, calls, log, drpg, file_systems, run, first_list>>

\* The if/else that logs the member count and list, or that none was found.
LogMemberCount ==
    /\ pc = "log_member_count"
    /\ IF HasFileSystems(restored_file_systems_list)
       THEN log' = log \o <<Rec("File Systems count in DRProtectionGroup", None),
                            Rec("List of File Systems in DRProtectionGroup", None)>>
       ELSE log' = Append(log, Rec("No File Systems found in DRProtectionGroup", None))
    /\ idx' = 1
    /\ pc' = "loop"
    /\ UNCHANGED <<drpg_ocid, error, restored_file_systems_list, keyname,
                   current_cmk_id, new_cmk_id, calls, drpg, file_systems, run,
                   first_list>>

\* The head of the loop body: get_file_system, json.loads and the four .get
GetFileSystem ==
    /\ pc = "loop"
    /\ idx <= Len(restored_file_systems_list)
    /\ LET file_system_id == restored_file_systems_list[idx] IN
       \E outcome \in {"ok", "error"} :
          IF outcome = "ok"
          THEN \E response_dict \in FileSystemRecords :
                 /\ file_systems[file_system_id].seen =>
                      /\ response_dict.kms_key_id = file_systems[file_system_id].kms_key_id
                      /\ response_dict.freeform_tags = file_systems[file_system_id].freeform_tags
                 /\ file_systems' = [file_systems EXCEPT ![file_system_id] =
                        [seen |-> TRUE,
                         kms_key_id |-> response_dict.kms_key_id,
                         freeform_tags |-> response_dict.freeform_tags]]
                 /\ calls' = Append(calls,
                        Call("get_file_system", file_system_id, response_dict, None, outcome))
                 /\ current_cmk_id' = response_dict.kms_key_id
                 /\ new_cmk_id' = DictGet(response_dict.freeform_tags, keyname)
                 /\ pc' = "decide"
                 /\ UNCHANGED error
          ELSE /\ calls' = Append(calls,
                        Call("get_file_system", file_system_id, NoRecord, None, outcome))
               /\ Abort("ServiceError")
               /\ UNCHANGED <<file_systems, current_cmk_id, new_cmk_id>>
    /\ UNCHANGED <<drpg_ocid, restored_file_systems_list, keyname, idx, log,
                   drpg, run, first_list>>

NextMember ==
    /\ idx' = idx + 1
    /\ current_cmk_id' = None
    /\ new_cmk_id' = None
    /\ pc' = "loop"

UpdateFileSystemSwallowsError ==
    /\ pc = "decide"
    /\ Decide(current_cmk_id, new_cmk_id) = "APPLY"
    /\ LET file_system_id == restored_file_systems_list[idx] IN
       \E outcome \in {"ok", "error"} :
          /\ calls' = Append(calls,
                 Call("update_file_system", file_system_id, NoRecord, new_cmk_id, outcome))
          /\ IF outcome = "ok"
             THEN /\ file_systems' = [file_systems EXCEPT
                        ![file_system_id].kms_key_id = new_cmk_id]
                  /\ log' = log \o <<Rec("Updating the file system", file_system_id),
                                     Rec("update_response", file_system_id)>>
             ELSE /\ log' = Append(log, Rec("Updating the file system", file_system_id))
                  /\ UNCHANGED file_systems
          /\ NextMember
          /\ UNCHANGED error
    /\ UNCHANGED <<drpg_ocid, restored_file_systems_list, keyname, drpg, run,
                   first_list>>

\* The branch that logs "Updating the file system", calls update_file_system
\* and logs its response.  A successful update sets the key id at the service.
UpdateFileSystem ==
    /\ pc = "decide"
    /\ Decide(current_cmk_id, new_cmk_id) = "APPLY"
    /\ LET file_system_id == restored_file_systems_list[idx] IN
       \E outcome \in {"ok", "error"} :
          /\ calls' = Append(calls,
                 Call("update_file_system", file_system_id, NoRecord, new_cmk_id, outcome))
          /\ IF outcome = "ok"
             THEN /\ file_systems' = [file_systems EXCEPT
                        ![file_system_id].kms_key_id = new_cmk_id]
                  /\ log' = log \o <<Rec("Updating the file system", file_system_id),
                                     Rec("update_response", file_system_id)>>
                  /\ NextMember
                  /\ UNCHANGED error
             ELSE /\ log' = Append(log, Rec("Updating the file system", file_system_id))
                  /\ Abort("ServiceError")
                  /\ UNCHANGED <<file_systems, idx, current_cmk_id, new_cmk_id>>
    /\ UNCHANGED <<drpg_ocid, restored_file_systems_list, keyname, drpg, run,
                   first_list>>

\* The branch that logs "... as Key not found in Freeform Tags list".
SkipNoKey ==
    /\ pc = "decide"
    /\ Decide(current_cmk_id, new_cmk_id) = "SKIP_NO_KEY"
    /\ log' = Append(log, Rec("Skipping Update: Key not found in Freeform Tags list",
                              restored_file_systems_list[idx]))
    /\ NextMember
    /\ UNCHANGED <<drpg_ocid, error, restored_file_systems_list, keyname,
                   calls, drpg, file_systems, run, first_list>>

\* The branch that logs "... as CMK already exists".
SkipAlreadySet ==
    /\ pc = "decide"
    /\ Decide(current_cmk_id, new_cmk_id) = "SKIP_ALREADY_SET"
    /\ log' = Append(log, Rec("Skipping Update: CMK already exists",
                              restored_file_systems_list[idx]))
    /\ NextMember
    /\ UNCHANGED <<drpg_ocid, error, restored_file_systems_list, keyname,
                   calls, drpg, file_systems, run, first_list>>

\* The loop is exhausted: the end date and the execution time are logged.
Finish ==
    /\ pc = "loop"
    /\ idx > Len(restored_file_systems_list)
    /\ log' = log \o <<Rec("Execution End Date", None),
                       Rec("Total Execution Time", None)>>
    /\ pc' = "done"
    /\ UNCHANGED <<drpg_ocid, error, restored_file_systems_list, keyname, idx,
                   current_cmk_id, new_cmk_id, calls, drpg, file_systems, run,
                   first_list>>

Next ==
    \/ GetRegionDict
    \/ GetDrpgFssMemberDetails
    \/ DeriveKeyname
    \/ LogMemberCount
    \/ GetFileSystem
    \/ UpdateFileSystem
    \/ SkipNoKey
    \/ SkipAlreadySet
    \/ Finish

Spec == Init /\ [][Next]_vars

\* The operator starts the script again, with the same argument, after a run
\* that completed: the process state is fresh, the services keep theirs.
Rerun ==
    /\ pc = "done"
    /\ run = 1
    /\ run' = 2
    /\ first_list' = restored_file_systems_list
    /\ pc' = "get_region_dict"
    /\ restored_file_systems_list' = <<>>
    /\ keyname' = Unbound
    /\ idx' = 0
    /\ calls' = <<>>
    /\ log' = <<Rec("Execution Start Date", None)>>
    /\ UNCHANGED <<drpg_ocid, error, current_cmk_id, new_cmk_id, drpg,
                   file_systems>>

NextTwoRuns == Next \/ Rerun

SpecTwoRuns == Init /\ [][NextTwoRuns]_vars

\* ------------------------------------------------- vocabulary of the claims

UpdateOp == "update_file_system"
GetOp == "get_file_system"
DrpgOp == "get_dr_protection_group"

CallIdx == 1..Len(calls)

Logged(msg) == \E i \in 1..Len(log) : log[i].msg = msg
LoggedFor(msg, id) == \E i \in 1..Len(log) : log[i] = Rec(msg, id)

\* The positions of the dots of an identifier, and from them its 4th
\* dot-separated segment: what lies between the 3rd dot and the next one.
Dots(s) == {i \in 1..Len(s) : s[i] = "."}
WellFormed(s) == Cardinality(Dots(s)) >= 3
FourthSegment(s) ==
    LET d3 == CHOOSE d \in Dots(s) : Cardinality({e \in Dots(s) : e < d}) = 2
        after == {e \in Dots(s) : e > d3}
        stop == IF after = {} THEN Len(s) + 1
                ELSE CHOOSE e \in after : \A f \in after : e <= f
    IN SubSeq(s, d3 + 1, stop - 1)
LookupKey(s) == KeyPrefix \o FourthSegment(s)

\* The value the tags of a fetched record hold at the lookup key of the run.
TagValueOf(rec) == DictGet(rec.freeform_tags, LookupKey(drpg_ocid))

EmptyOrAbsent(k) == k = None \/ k = ""

\* Call j fetched a record, and the loop body that fetched it has run to
\* its end (or to the exception that ended it).
Fetched(j) == calls[j].op = GetOp /\ calls[j].outcome = "ok"
VisitOver(j) == ~(j = Len(calls) /\ pc = "decide")

UpdatesAt(pos) == {k \in CallIdx : calls[k].op = UpdateOp /\ calls[k].pos = pos}

\* The member fetch of this run has returned a list to the main script.
FetcherReturned ==
    \E j \in CallIdx : /\ calls[j].op = DrpgOp
                       /\ calls[j].outcome \in {"ok", "error_with_reason"}

FetchSucceeded ==
    \E j \in CallIdx : calls[j].op = DrpgOp /\ calls[j].outcome = "ok"

FetchSwallowed ==
    \E j \in CallIdx : calls[j].op = DrpgOp /\ calls[j].outcome = "error_with_reason"

AllCallsSucceeded == \A j \in CallIdx : calls[j].outcome = "ok"

\* ------------------------------------------------------------------ claims

\* C1: an update_file_system call is issued for a member only if the record
\* fetched for it has an empty or absent kms_key_id and its freeform tags
\* hold the lookup key; a member whose fetched kms_key_id is non-empty gets
\* the decision SKIP_ALREADY_SET and no update, whatever its tags hold.
Thm_C1 ==
    /\ \A j \in CallIdx :
          calls[j].op = UpdateOp =>
             /\ j > 1
             /\ Fetched(j - 1)
             /\ calls[j - 1].id = calls[j].id
             /\ calls[j - 1].pos = calls[j].pos
             /\ EmptyOrAbsent(calls[j - 1].rec.kms_key_id)
             /\ LookupKey(drpg_ocid) \in DOMAIN calls[j - 1].rec.freeform_tags
    /\ \A j \in CallIdx :
          (Fetched(j) /\ ~EmptyOrAbsent(calls[j].rec.kms_key_id)) =>
             /\ UpdatesAt(calls[j].pos) = {}
             /\ VisitOver(j) =>
                  LoggedFor("Skipping Update: CMK already exists", calls[j].id)

\* A member with a key id and a usable tag was skipped after another member
\* was updated.
Wit_C1 ==
    /\ \E j \in CallIdx : calls[j].op = UpdateOp
    /\ \E j \in CallIdx :
          /\ Fetched(j)
          /\ VisitOver(j)
          /\ calls[j].rec.kms_key_id = "cmk_old"
          /\ TagValueOf(calls[j].rec) = "cmk"

\* C2: a member whose fetched key id is empty or absent and whose tag value
\* at the lookup key is missing or is the empty string gets the decision
\* SKIP_NO_KEY: no update_file_system call is issued for it.
Cex_C2 ==
    \A j \in CallIdx :
       (/\ Fetched(j)
        /\ EmptyOrAbsent(calls[j].rec.kms_key_id)
        /\ TagValueOf(calls[j].rec) \in {None, ""}) =>
          /\ UpdatesAt(calls[j].pos) = {}
          /\ VisitOver(j) =>
               LoggedFor("Skipping Update: Key not found in Freeform Tags list",
                         calls[j].id)

\* C3: with an identifier of fewer than 4 dot-separated segments the run
\* fails on the format of its input before any remote call: when that error
\* is raised, no remote call has been issued.
Cex_C3 ==
    (~WellFormed(drpg_ocid) /\ pc = "aborted" /\ error = "IndexError") => calls = <<>>

\* C4: with an identifier of at least 4 segments, a member whose fetched key
\* id is empty or absent and whose tags hold a non-empty value v at
\* "key_" + segments[3] gets exactly one update_file_system call, with its
\* own id and kms_key_id = v; the lookup key is one value for the whole run.
Thm_C4 ==
    /\ keyname # Unbound => (WellFormed(drpg_ocid) /\ keyname = LookupKey(drpg_ocid))
    /\ pc \in {"log_member_count", "loop", "decide", "done"} => keyname # Unbound
    /\ \A j \in CallIdx :
          (/\ Fetched(j)
           /\ VisitOver(j)
           /\ EmptyOrAbsent(calls[j].rec.kms_key_id)
           /\ TagValueOf(calls[j].rec) \notin {None, ""}) =>
             /\ j < Len(calls)
             /\ calls[j + 1].op = UpdateOp
             /\ calls[j + 1].id = calls[j].id
             /\ calls[j + 1].pos = calls[j].pos
             /\ calls[j + 1].kms = TagValueOf(calls[j].rec)
             /\ UpdatesAt(calls[j].pos) = {j + 1}

\* Two members were updated in one run, each from its own tag.
Wit_C4 ==
    \E j, k \in CallIdx :
       /\ j < k
       /\ calls[j].op = UpdateOp /\ calls[j].kms = "cmk"
       /\ calls[k].op = UpdateOp /\ calls[k].kms = "cmk"
       /\ calls[j].id # calls[k].id
       /\ Len(FourthSegment(drpg_ocid)) > 0

\* C5: an error with a reason field raised by get_dr_protection_group is
\* caught: the fetch returns the empty list and the run goes on as for a
\* group without file systems.  An error of any other remote call is not
\* caught: it ends the run.
Thm_C5 ==
    /\ FetchSwallowed =>
          /\ restored_file_systems_list = <<>>
          /\ \A j \in CallIdx : calls[j].op \notin {GetOp, UpdateOp}
          /\ pc = "aborted" => error = "IndexError"
          /\ WellFormed(drpg_ocid) => pc # "aborted"
          /\ pc \in {"loop", "done"} =>
                /\ Logged("No File Systems found in DRProtectionGroup")
                /\ ~Logged("File Systems count in DRProtectionGroup")
          /\ pc = "done" => log[Len(log)].msg = "Total Execution Time"
    /\ \A j \in CallIdx :
          (calls[j].op # DrpgOp /\ calls[j].outcome # "ok") =>
             /\ pc = "aborted"
             /\ error = "ServiceError"
             /\ j = Len(calls)
             /\ ~Logged("Execution End Date")

\* The fetch failed with a reason and the run completed all the same.
Wit_C5 == FetchSwallowed /\ pc = "done"

\* C6: when the remote calls of a run all succeed, the run issues one
\* get_file_system call per element of the list the fetcher returned, in the
\* order of the list, every member ends in one of UPDATED, SKIP_ALREADY_SET
\* and SKIP_NO_KEY, member i is done before member i+1 is fetched, and the
\* run terminates after logging its end.
Cex_C6 ==
    (FetcherReturned /\ AllCallsSucceeded) =>
       /\ pc # "aborted"
       /\ \A j, k \in CallIdx : j < k => calls[j].pos <= calls[k].pos
       /\ pc = "done" =>
             /\ log[Len(log)].msg = "Total Execution Time"
             /\ \A i \in 1..Len(restored_file_systems_list) :
                   LET id == restored_file_systems_list[i]
                       gets == {j \in CallIdx : calls[j].op = GetOp /\ calls[j].pos = i}
                   IN /\ Cardinality(gets) = 1
                      /\ \A j \in gets : calls[j].id = id
                      /\ Cardinality(
                            {m \in {"update_response",
                                    "Skipping Update: CMK already exists",
                                    "Skipping Update: Key not found in Freeform Tags list"} :
                               LoggedFor(m, id)}) = 1
             /\ \A j \in CallIdx :
                   calls[j].op = GetOp =>
                      calls[j].pos \in 1..Len(restored_file_systems_list)

\* C7: an error of update_file_system for member k is not caught: the run
\* ends there, no call follows it, the end of the run is not logged, and the
\* updates applied before it stay applied.
Thm_C7 ==
    \A j \in CallIdx :
       (calls[j].op = UpdateOp /\ calls[j].outcome = "error") =>
          /\ pc = "aborted"
          /\ error = "ServiceError"
          /\ j = Len(calls)
          /\ idx = calls[j].pos
          /\ ~Logged("Execution End Date")
          /\ \A k \in 1..(j - 1) :
                calls[k].op = UpdateOp =>
                   file_systems[calls[k].id].kms_key_id = calls[k].kms

\* The update of the second member failed after the first was updated.
Wit_C7 ==
    \E j, k \in CallIdx :
       /\ k < j
       /\ calls[j].op = UpdateOp /\ calls[j].outcome = "error"
       /\ calls[k].op = UpdateOp /\ calls[k].outcome = "ok"
       /\ calls[k].kms = "cmk"

\* C8: get_drpg_fss_member_details returns the member_id of exactly the
\* members of type FILE_SYSTEM, in the order of the response; a group with
\* no member, or with no file system, gives the empty list and no error.
Thm_C8 ==
    FetchSucceeded =>
       LET members == IF drpg.has_members THEN drpg.members ELSE <<>>
           fss == {i \in 1..Len(members) : members[i].member_type = "FILE_SYSTEM"}
           nth(k) == CHOOSE i \in fss : Cardinality({e \in fss : e <= i}) = k
       IN /\ Len(restored_file_systems_list) = Cardinality(fss)
          /\ \A k \in 1..Len(restored_file_systems_list) :
                restored_file_systems_list[k] = members[nth(k)].member_id
          /\ error # "AttributeError"

\* Two file systems came back around a member of another type.
Wit_C8 ==
    /\ FetchSucceeded
    /\ Len(drpg.members) = 3
    /\ drpg.members[2].member_type = "COMPUTE_INSTANCE"
    /\ restored_file_systems_list = <<"fs2", "fs1">>

\* C9: when the fetcher returns no file system and the identifier is well
\* formed, no get_file_system and no update_file_system call is issued,
\* "No File Systems found" is logged and the run completes.
Thm_C9 ==
    (FetcherReturned /\ restored_file_systems_list = <<>> /\ WellFormed(drpg_ocid)) =>
       /\ \A j \in CallIdx : calls[j].op \notin {GetOp, UpdateOp}
       /\ pc \in {"derive_keyname", "log_member_count", "loop", "done"}
       /\ pc \in {"loop", "done"} =>
             /\ Logged("No File Systems found in DRProtectionGroup")
             /\ ~Logged("File Systems count in DRProtectionGroup")
       /\ pc = "done" => log[Len(log)].msg = "Total Execution Time"

\* A group whose members are all of another type: the run completed.
Wit_C9 ==
    /\ FetchSucceeded
    /\ drpg.has_members
    /\ Len(drpg.members) = 1
    /\ restored_file_systems_list = <<>>
    /\ pc = "done"

\* C10: after a run that completed, a second run with the same identifier
\* over the same members and unchanged tags issues no update_file_system
\* call.
Cex_C10 ==
    (run = 2 /\ FetcherReturned /\ restored_file_systems_list = first_list) =>
       \A j \in CallIdx : calls[j].op # UpdateOp

====
